---------------------------- MODULE Spec2Model ----------------------------
(***************************************************************************)
(* State-machine model of the ShiftManagement component                    *)
(* (src/src/ShiftManagement.jsx): the vacancy list fetched from the REST   *)
(* endpoint, the debounced price-range filter, the slide-out form panel    *)
(* with its draft and validation pass, and the create/update/delete        *)
(* requests.                                                               *)
(*                                                                         *)
(* JavaScript strings that the code takes apart (dates, times, the text of *)
(* number inputs) are sequences of character codes, so that split,         *)
(* substring, parseInt and localeCompare are computed, not assumed.        *)
(***************************************************************************)
EXTENDS Integers, Sequences, FiniteSets, TLC

(***************************************************************************)
(* Bounds of the model                                                     *)
(***************************************************************************)
\* longest vacancy list a fetch response carries
MaxRaw == 3
\* most rows the draft is grown to by add-shift
MaxShifts == 2
\* most timeouts pending at once (the code keeps one; a defect would not)
MaxTimers == 2
\* most mutation requests in flight at once
MaxMutations == 2
\* most GET requests in flight at once
MaxFetches == 2

(***************************************************************************)
(* Strings as sequences of character codes                                 *)
(***************************************************************************)
Hyphen == 45
Colon  == 58
Zero   == 48

Digit(n) == Zero + n
IsDigit(c) == c >= Zero /\ c <= Zero + 9

\* n.toString().padStart(2, "0")
Pad2(n) == <<Digit(n \div 10), Digit(n % 10)>>
Pad4(n) == <<Digit(n \div 1000), Digit((n \div 100) % 10),
             Digit((n \div 10) % 10), Digit(n % 10)>>

\* the value of <input type="date">: "YYYY-MM-DD"
IsoDate(y, m, d) == Pad4(y) \o <<Hyphen>> \o Pad2(m) \o <<Hyphen>> \o Pad2(d)
\* the wire form "DD-MM-YYYY"
WireDate(y, m, d) == Pad2(d) \o <<Hyphen>> \o Pad2(m) \o <<Hyphen>> \o Pad4(y)
\* "HH:MM", as timeOptions builds it
TimeStr(h, m) == Pad2(h) \o <<Colon>> \o Pad2(m)
\* "HH:MM:SS", as a backend may return a time column
TimeStrSec(h, m) == TimeStr(h, m) \o <<Colon>> \o Pad2(0)

RECURSIVE NatStr(_)
\* decimal text of a natural number (the value of a range input)
NatStr(n) == IF n < 10 THEN <<Digit(n)>> ELSE NatStr(n \div 10) \o <<Digit(n % 10)>>

\* the JavaScript number NaN: every ordering comparison with it is false
NaN == -999999
IsNaN(x) == x = NaN
JsLE(a, b) == ~IsNaN(a) /\ ~IsNaN(b) /\ a <= b
JsGE(a, b) == ~IsNaN(a) /\ ~IsNaN(b) /\ a >= b

RECURSIVE DigitsValue(_, _, _)
\* value of the longest run of digits of s starting at position i, acc so far
DigitsValue(s, i, acc) ==
    IF i > Len(s) \/ ~IsDigit(s[i]) THEN acc
    ELSE DigitsValue(s, i + 1, acc * 10 + (s[i] - Zero))

\* parseInt(s, 10): optional sign, then the leading digits; NaN without a digit
ParseInt(s) ==
    LET neg   == Len(s) >= 1 /\ s[1] = Hyphen
        first == IF neg THEN 2 ELSE 1
    IN  IF first > Len(s) \/ ~IsDigit(s[first]) THEN NaN
        ELSE IF neg THEN 0 - DigitsValue(s, first, 0)
        ELSE DigitsValue(s, first, 0)

RECURSIVE SplitFrom(_, _, _, _)
SplitFrom(s, sep, i, cur) ==
    IF i > Len(s) THEN <<cur>>
    ELSE IF s[i] = sep THEN <<cur>> \o SplitFrom(s, sep, i + 1, <<>>)
    ELSE SplitFrom(s, sep, i + 1, Append(cur, s[i]))

\* s.split(sep): the pieces between the separators ("" gives one empty piece)
Split(s, sep) == SplitFrom(s, sep, 1, <<>>)

\* s.substring(0, n)
Substring0(s, n) == SubSeq(s, 1, IF Len(s) < n THEN Len(s) ELSE n)

RECURSIVE StrCmp(_, _, _)
StrCmp(a, b, i) ==
    IF i > Len(a) /\ i > Len(b) THEN 0
    ELSE IF i > Len(a) THEN -1
    ELSE IF i > Len(b) THEN 1
    ELSE IF a[i] < b[i] THEN -1
    ELSE IF a[i] > b[i] THEN 1
    ELSE StrCmp(a, b, i + 1)

\* a.localeCompare(b) on strings of digits and hyphens: hyphen sorts before
\* every digit and a proper prefix sorts first
LocaleCompare(a, b) == StrCmp(a, b, 1)


(***************************************************************************)
(* Values the environment supplies                                         *)
(***************************************************************************)
\* a JSON null (a missing title or description of a fetched vacancy)
JsNull == "<null>"

Swift(date, start, end, type, price) ==
    [date |-> date, start_time |-> start, end_time |-> end,
     type |-> type, price |-> price]

\* a vacancy as the backend returns it; hasSwifts is FALSE when the object
\* carries no "swifts" key
Vacancy(id, title, description, hasSwifts, swifts) ==
    [id |-> id, title |-> title, description |-> description,
     hasSwifts |-> hasSwifts, swifts |-> swifts]

\* one shift in the wire form, priced 50
V1 == Vacancy(1, "A", "B", TRUE,
        <<Swift(WireDate(2025, 1, 2), TimeStrSec(9, 0), TimeStrSec(17, 0),
                "Consultation", 50)>>)
\* no shifts
V2 == Vacancy(2, "A", "B", TRUE, <<>>)
\* one shift with an ISO date, priced 900
V3 == Vacancy(3, "A", JsNull, TRUE,
        <<Swift(IsoDate(2025, 1, 2), TimeStr(9, 0), TimeStr(17, 0),
                "Telephone", 900)>>)
\* no "swifts" key at all
V4 == Vacancy(4, JsNull, "B", FALSE, <<>>)
\* two shifts in the wire form, 1 Feb before 15 Jan, priced outside [0,1000]
V5 == Vacancy(5, "A", "B", TRUE,
        <<Swift(WireDate(2025, 2, 1), TimeStrSec(9, 0), TimeStrSec(17, 0),
                "Emergency", 1500),
          Swift(WireDate(2025, 1, 15), TimeStrSec(17, 0), TimeStrSec(9, 0),
                "Ambulance", -5)>>)
\* two shifts on the same ISO date, priced 100 and 500 (opened in the panel)
V6 == Vacancy(6, "A", "B", TRUE,
        <<Swift(IsoDate(2025, 1, 2), TimeStr(9, 0), TimeStr(17, 0),
                "Consultation", 100),
          Swift(IsoDate(2025, 1, 2), TimeStr(17, 0), TimeStr(17, 15),
                "Telephone", 500)>>)

VacancyPool == {V1, V2, V3, V4, V5}

RECURSIVE ListsUpTo(_, _)
\* every list of at most n distinct elements of S, in every order
ListsUpTo(S, n) ==
    IF n = 0 THEN {<<>>}
    ELSE LET shorter == ListsUpTo(S, n - 1)
             longest == {k \in shorter : Len(k) = n - 1}
         IN  shorter \cup UNION {{Append(l, x) : x \in S \ {l[i] : i \in DOMAIN l}} : l \in longest}

\* the lists a GET response can carry
FetchLists == ListsUpTo(VacancyPool, MaxRaw)

\* positions of the range inputs the user moves the sliders to
PriceStops == {0, 100, 900, 1000}
SliderTexts == {NatStr(n) : n \in PriceStops}

\* the outcomes of a GET (src/src/ShiftManagement.jsx:82-106)
FetchOutcomes(lists) ==
    {[kind |-> "ok", data |-> l] : l \in lists}
      \cup {[kind |-> k, data |-> <<>>] : k \in {"malformed", "http_error", "network_error"}}

(***************************************************************************)
(* State                                                                   *)
(***************************************************************************)
VARIABLES
    rawVacancies,      \* useState([]): the list as last fetched
    isLoading,         \* useState(true)
    isDrawerOpen,      \* useState(false)
    editingVacancy,    \* useState(null): <<>> for null, <<v>> for vacancy v
    minPrice,          \* slider value
    maxPrice,          \* slider value
    actualMinPrice,    \* debounced bound
    actualMaxPrice,    \* debounced bound
    formData,          \* the draft: [title, description, shifts]
    dateInput,         \* value of the date input of the panel
    validationErrors,  \* [keys, shiftDetails] as the last pass recorded them
    timers,            \* timeouts pending: [id, min, max], the values captured
    timeoutId,         \* id the cleanup of the current debounce effect clears
    fetches,           \* GET requests in flight: [id, then]
    mutations,         \* POST/PUT/DELETE requests in flight
    alert,             \* the alert raised by the last step, "none" if none
    lastOp,            \* the handler or callback that ran last
    lastInput          \* what the network or the user handed to it

vars == <<rawVacancies, isLoading, isDrawerOpen, editingVacancy, minPrice,
          maxPrice, actualMinPrice, actualMaxPrice, formData, dateInput,
          validationErrors, timers, timeoutId, fetches, mutations, alert,
          lastOp, lastInput>>

filterVars == <<minPrice, maxPrice, actualMinPrice, actualMaxPrice, timers, timeoutId>>
formVars == <<isDrawerOpen, editingVacancy, formData, dateInput, validationErrors>>
netVars == <<rawVacancies, isLoading, fetches, mutations>>

NoVacancy == <<>>
\* the last step took no response and no answer to a prompt
NoInput == [kind |-> "none", data |-> <<>>]
initialFormData == [title |-> "", description |-> "", shifts |-> <<>>]
NoErrors == [keys |-> {}, shiftDetails |-> {}]
EmptyStr == <<>>

\* the least id of 1..n not in used (0 when there is none)
FreshId(used, n) ==
    IF \E i \in 1..n : i \notin used
    THEN CHOOSE i \in 1..n : i \notin used /\ \A j \in 1..n : j \notin used => i <= j
    ELSE 0

(***************************************************************************)
(* Client-side filter (useMemo, lines 127-157)                             *)
(***************************************************************************)
HasShiftsNoLengthCheck(v) == v.hasSwifts
\* vacancy.swifts && vacancy.swifts.length > 0
HasShifts(v) == v.hasSwifts /\ Len(v.swifts) > 0

PriceInRangeExclusive(p, lo, hi) == JsGE(p, lo) /\ ~IsNaN(p) /\ p < hi
\* swift.price >= actualMinPrice && swift.price <= actualMaxPrice
PriceInRange(p, lo, hi) == JsGE(p, lo) /\ JsLE(p, hi)

\* vacancy.swifts.some(...)
HasMatchingShift(v, lo, hi) ==
    \E i \in 1..Len(v.swifts) : PriceInRange(v.swifts[i].price, lo, hi)

FilterActiveAlways(lo, hi) == lo > 0 \/ hi <= 1000
\* actualMinPrice > 0 || actualMaxPrice < 1000
FilterActive(lo, hi) == lo > 0 \/ hi < 1000

Filter(raw, lo, hi) ==
    IF FilterActive(lo, hi)
    THEN SelectSeq(raw, LAMBDA v : HasShifts(v) /\ HasMatchingShift(v, lo, hi))
    ELSE SelectSeq(raw, HasShifts)

filteredVacancies == Filter(rawVacancies, actualMinPrice, actualMaxPrice)

(***************************************************************************)
(* Debounce timer (useEffect, lines 115-124) and the sliders (385-404)     *)
(***************************************************************************)
ClearTimeoutNothing(ts, id) == ts
\* clearTimeout(timeoutId): no effect when that timeout has fired already
ClearTimeout(ts, id) == {t \in ts : t.id # id}

DebounceEffectCancelOnly(mn, mx) ==
    /\ timers' = ClearTimeout(timers, timeoutId)
    /\ timeoutId' = timeoutId
\* the effect re-runs after a render in which minPrice or maxPrice changed:
\* the cleanup of the previous run, then a new setTimeout capturing (mn, mx)
DebounceEffect(mn, mx) ==
    LET kept == ClearTimeout(timers, timeoutId)
        id   == FreshId({t.id : t \in kept}, MaxTimers)
    IN  /\ id # 0
        /\ timers' = kept \cup {[id |-> id, min |-> mn, max |-> mx]}
        /\ timeoutId' = id

JsMin(a, b) == IF a < b THEN a ELSE b
JsMax(a, b) == IF a > b THEN a ELSE b

ChangeMinUnclamped(text) ==
    LET newMin == ParseInt(text)
    IN  /\ alert' = "none"
        /\ lastOp' = "changeMin"
        /\ lastInput' = NoInput
        /\ IF newMin = minPrice
           THEN UNCHANGED filterVars
           ELSE /\ minPrice' = newMin
                /\ DebounceEffect(newMin, maxPrice)
                /\ UNCHANGED <<maxPrice, actualMinPrice, actualMaxPrice>>
        /\ UNCHANGED <<formVars, netVars>>
\* onChange of the min slider: setMinPrice(Math.min(parseInt(value), maxPrice))
ChangeMin(text) ==
    LET newMin == JsMin(ParseInt(text), maxPrice)
    IN  /\ alert' = "none"
        /\ lastOp' = "changeMin"
        /\ lastInput' = NoInput
        /\ IF newMin = minPrice
           THEN UNCHANGED filterVars
           ELSE /\ minPrice' = newMin
                /\ DebounceEffect(newMin, maxPrice)
                /\ UNCHANGED <<maxPrice, actualMinPrice, actualMaxPrice>>
        /\ UNCHANGED <<formVars, netVars>>

\* onChange of the max slider: setMaxPrice(Math.max(parseInt(value), minPrice))
ChangeMax(text) ==
    LET newMax == JsMax(ParseInt(text), minPrice)
    IN  /\ alert' = "none"
        /\ lastOp' = "changeMax"
        /\ lastInput' = NoInput
        /\ IF newMax = maxPrice
           THEN UNCHANGED filterVars
           ELSE /\ maxPrice' = newMax
                /\ DebounceEffect(minPrice, newMax)
                /\ UNCHANGED <<minPrice, actualMinPrice, actualMaxPrice>>
        /\ UNCHANGED <<formVars, netVars>>

TimerFireMinOnly(t) ==
    /\ t \in timers
    /\ actualMinPrice' = t.min
    /\ timers' = timers \ {t}
    /\ alert' = "none"
    /\ lastOp' = "timer"
    /\ lastInput' = NoInput
    /\ UNCHANGED <<minPrice, maxPrice, actualMaxPrice, timeoutId, formVars, netVars>>
\* the timeout expires: setActualMinPrice(minPrice); setActualMaxPrice(maxPrice)
\* with the values the callback captured, rendered as one batched update
TimerFire(t) ==
    /\ t \in timers
    /\ actualMinPrice' = t.min
    /\ actualMaxPrice' = t.max
    /\ timers' = timers \ {t}
    /\ alert' = "none"
    /\ lastOp' = "timer"
    /\ lastInput' = NoInput
    /\ UNCHANGED <<minPrice, maxPrice, timeoutId, formVars, netVars>>

(***************************************************************************)
(* Drawer                                                                  *)
(***************************************************************************)
CloseDrawerUpdateKeepErrors ==
    /\ isDrawerOpen' = FALSE
    /\ editingVacancy' = NoVacancy
    /\ UNCHANGED <<formData, dateInput, validationErrors>>
\* closeDrawer (lines 188-192); formData and dateInput are left as they are
CloseDrawerUpdate ==
    /\ isDrawerOpen' = FALSE
    /\ editingVacancy' = NoVacancy
    /\ validationErrors' = NoErrors
    /\ UNCHANGED <<formData, dateInput>>

\* vacancy.title || "": null and "" both give ""
OrEmpty(x) == IF x = JsNull \/ x = "" THEN "" ELSE x

Range(l) == {l[i] : i \in DOMAIN l}

RECURSIVE InsertByDate(_, _)
\* x put behind every row whose date does not compare greater than its own
InsertByDate(sorted, x) ==
    IF sorted = <<>> THEN <<x>>
    ELSE IF LocaleCompare(sorted[Len(sorted)].date, x.date) <= 0 THEN Append(sorted, x)
    ELSE Append(InsertByDate(SubSeq(sorted, 1, Len(sorted) - 1), x), sorted[Len(sorted)])

RECURSIVE SortByDate(_)
\* rows.sort((a, b) => a.date.localeCompare(b.date)); Array.prototype.sort
\* is stable
SortByDate(rows) ==
    IF rows = <<>> THEN <<>>
    ELSE InsertByDate(SortByDate(SubSeq(rows, 1, Len(rows) - 1)), rows[Len(rows)])

\* the rows openDrawer copies from a vacancy (lines 166-174)
LoadedShifts(v) ==
    IF v.hasSwifts
    THEN [i \in DOMAIN v.swifts |->
            [date       |-> v.swifts[i].date,
             start_time |-> Substring0(v.swifts[i].start_time, 5),
             end_time   |-> Substring0(v.swifts[i].end_time, 5),
             type       |-> v.swifts[i].type,
             price      |-> v.swifts[i].price]]
    ELSE <<>>

\* openDrawer() from ADD VACANCY (the button stays reachable by keyboard while
\* the panel is open)
OpenDrawerNew ==
    /\ validationErrors' = NoErrors
    /\ editingVacancy' = NoVacancy
    /\ formData' = initialFormData
    /\ isDrawerOpen' = TRUE
    /\ alert' = "none"
    /\ lastOp' = "openDrawer"
    /\ lastInput' = NoInput
    /\ UNCHANGED <<dateInput, filterVars, netVars>>

\* openDrawer(vacancy) from the edit button of a listed vacancy; the list is
\* rendered only while isLoading is false (lines 434-442)
OpenDrawerEdit(v) ==
    /\ ~isLoading
    /\ v \in Range(filteredVacancies)
    /\ validationErrors' = NoErrors
    /\ editingVacancy' = <<v>>
    /\ formData' = [title       |-> OrEmpty(v.title),
                    description |-> OrEmpty(v.description),
                    shifts      |-> SortByDate(LoadedShifts(v))]
    /\ isDrawerOpen' = TRUE
    /\ alert' = "none"
    /\ lastOp' = "openDrawer"
    /\ lastInput' = NoInput
    /\ UNCHANGED <<dateInput, filterVars, netVars>>

\* closeDrawer from the overlay or the X button
CloseDrawer ==
    /\ isDrawerOpen
    /\ CloseDrawerUpdate
    /\ alert' = "none"
    /\ lastOp' = "closeDrawer"
    /\ lastInput' = NoInput
    /\ UNCHANGED <<filterVars, netVars>>

\* handleInputChange for the title input and the description textarea
HandleInputChange(name, value) ==
    /\ isDrawerOpen
    /\ name \in {"title", "description"}
    /\ formData' = [formData EXCEPT ![name] = value]
    /\ alert' = "none"
    /\ lastOp' = "handleInputChange"
    /\ lastInput' = NoInput
    /\ UNCHANGED <<isDrawerOpen, editingVacancy, dateInput, validationErrors,
                   filterVars, netVars>>

\* onChange of the date input: setDateInput(e.target.value)
SetDateInput(value) ==
    /\ isDrawerOpen
    /\ dateInput' = value
    /\ alert' = "none"
    /\ lastOp' = "setDateInput"
    /\ lastInput' = NoInput
    /\ UNCHANGED <<isDrawerOpen, editingVacancy, formData, validationErrors,
                   filterVars, netVars>>

\* initialShiftDetails (lines 27-32)
initialShiftDetails ==
    [start_time |-> TimeStr(9, 0), end_time |-> TimeStr(17, 0),
     type |-> "Consultation", price |-> 70]

CanAddShiftAnyDate(date, shifts) == date # EmptyStr
\* dateInput && !formData.shifts.some((s) => s.date === dateInput)
CanAddShift(date, shifts) ==
    date # EmptyStr /\ ~\E i \in DOMAIN shifts : shifts[i].date = date

\* addShift (lines 203-219)
AddShift ==
    /\ isDrawerOpen
    /\ alert' = "none"
    /\ lastOp' = "addShift"
    /\ lastInput' = NoInput
    /\ IF CanAddShift(dateInput, formData.shifts)
       THEN LET newShift == [date       |-> dateInput,
                             start_time |-> initialShiftDetails.start_time,
                             end_time   |-> initialShiftDetails.end_time,
                             type       |-> initialShiftDetails.type,
                             price      |-> initialShiftDetails.price]
            IN  /\ Len(formData.shifts) < MaxShifts
                /\ formData' = [formData EXCEPT
                                  !.shifts = SortByDate(Append(@, newShift))]
                /\ dateInput' = EmptyStr
       ELSE UNCHANGED <<formData, dateInput>>
    /\ UNCHANGED <<isDrawerOpen, editingVacancy, validationErrors, filterVars, netVars>>

\* handleShiftChange(index, name, value) (lines 221-230); index counts from 0
HandleShiftChange(index, name, value) ==
    /\ isDrawerOpen
    /\ index \in 0..(Len(formData.shifts) - 1)
    /\ name \in {"start_time", "end_time", "type", "price"}
    /\ formData' = [formData EXCEPT
                      !.shifts[index + 1][name] =
                          IF name = "price" THEN ParseInt(value) ELSE value]
    /\ alert' = "none"
    /\ lastOp' = "handleShiftChange"
    /\ lastInput' = NoInput
    /\ UNCHANGED <<isDrawerOpen, editingVacancy, dateInput, validationErrors,
                   filterVars, netVars>>

RemoveShiftFirstOnly(dateToRemove) ==
    /\ isDrawerOpen
    /\ \E i \in DOMAIN formData.shifts : formData.shifts[i].date = dateToRemove
    /\ LET rows == formData.shifts
           k    == CHOOSE i \in DOMAIN rows :
                      /\ rows[i].date = dateToRemove
                      /\ \A j \in DOMAIN rows : rows[j].date = dateToRemove => i <= j
       IN  formData' = [formData EXCEPT
                          !.shifts = SubSeq(rows, 1, k - 1) \o SubSeq(rows, k + 1, Len(rows))]
    /\ alert' = "none"
    /\ lastOp' = "removeShift"
    /\ lastInput' = NoInput
    /\ UNCHANGED <<isDrawerOpen, editingVacancy, dateInput, validationErrors,
                   filterVars, netVars>>
\* removeShift(shift.date) from the trash button of a row (lines 232-237)
RemoveShift(dateToRemove) ==
    /\ isDrawerOpen
    /\ \E i \in DOMAIN formData.shifts : formData.shifts[i].date = dateToRemove
    /\ formData' = [formData EXCEPT
                      !.shifts = SelectSeq(@, LAMBDA r : r.date # dateToRemove)]
    /\ alert' = "none"
    /\ lastOp' = "removeShift"
    /\ lastInput' = NoInput
    /\ UNCHANGED <<isDrawerOpen, editingVacancy, dateInput, validationErrors,
                   filterVars, netVars>>

(***************************************************************************)
(* Validation (validateForm, lines 240-277)                                *)
(***************************************************************************)
\* parseInt(t.split(":")[0]) * 60 + parseInt(t.split(":")[1])
TimeInMinutes(t) ==
    LET parts == Split(t, Colon)
    IN  ParseInt(parts[1]) * 60 + ParseInt(parts[2])

PriceErrorNonPositiveOnly(shift) == JsLE(shift.price, 0)
\* shift.price <= 0 || isNaN(shift.price)
PriceError(shift) == JsLE(shift.price, 0) \/ IsNaN(shift.price)

TimeErrorStrictlyBefore(shift) ==
    TimeInMinutes(shift.end_time) < TimeInMinutes(shift.start_time)
\* endTimeInMinutes <= startTimeInMinutes
TimeError(shift) ==
    TimeInMinutes(shift.end_time) <= TimeInMinutes(shift.start_time)

\* shiftErrors: the keys `price-${index}` and `time-${index}`, index from 0
ShiftErrors(shifts) ==
    {<<"price", i - 1>> : i \in {j \in DOMAIN shifts : PriceError(shifts[j])}}
      \cup {<<"time", i - 1>> : i \in {j \in DOMAIN shifts : TimeError(shifts[j])}}

TopLevelErrorsNoTitle(fd) ==
    (IF fd.description = "" THEN {"description"} ELSE {})
      \cup (IF Len(fd.shifts) = 0 THEN {"shifts"} ELSE {})
\* the three checks of lines 242-245
TopLevelErrors(fd) ==
    (IF fd.title = "" THEN {"title"} ELSE {})
      \cup (IF fd.description = "" THEN {"description"} ELSE {})
      \cup (IF Len(fd.shifts) = 0 THEN {"shifts"} ELSE {})

ValidateFormFirstOnly(fd) ==
    IF fd.title = "" THEN [keys |-> {"title"}, shiftDetails |-> {}]
    ELSE IF fd.description = "" THEN [keys |-> {"description"}, shiftDetails |-> {}]
    ELSE IF Len(fd.shifts) = 0 THEN [keys |-> {"shifts"}, shiftDetails |-> {}]
    ELSE [keys         |-> IF ShiftErrors(fd.shifts) # {} THEN {"shiftDetails"} ELSE {},
          shiftDetails |-> ShiftErrors(fd.shifts)]
\* the errors object validateForm builds
ValidateForm(fd) ==
    LET shiftErrors == ShiftErrors(fd.shifts)
    IN  [keys         |-> TopLevelErrors(fd)
                            \cup (IF shiftErrors # {} THEN {"shiftDetails"} ELSE {}),
         shiftDetails |-> shiftErrors]

IsValidAlways(errors) == TRUE
\* Object.keys(errors).length === 0
IsValid(errors) == errors.keys = {}

(***************************************************************************)
(* Save and delete (handleSave, lines 281-330; handleDelete, 332-360)      *)
(***************************************************************************)
\* formatDateForAPI (lines 17-21)
formatDateForAPI(dateStr) ==
    IF dateStr = EmptyStr THEN EmptyStr
    ELSE LET parts == Split(dateStr, Hyphen)
         IN  parts[3] \o <<Hyphen>> \o parts[2] \o <<Hyphen>> \o parts[1]

\* formatTimeForAPI (line 24)
formatTimeForAPI(timeStr) == timeStr

\* vacancyPayload (lines 287-299)
VacancyPayload(fd) ==
    [title       |-> fd.title,
     description |-> fd.description,
     shifts      |-> [i \in DOMAIN fd.shifts |->
                        [date       |-> formatDateForAPI(fd.shifts[i].date),
                         start_time |-> formatTimeForAPI(fd.shifts[i].start_time),
                         end_time   |-> formatTimeForAPI(fd.shifts[i].end_time),
                         type       |-> fd.shifts[i].type,
                         price      |-> fd.shifts[i].price]]]

NoPayload == [title |-> "", description |-> "", shifts |-> <<>>]

HandleSaveOneAtATime ==
    LET errors == ValidateForm(formData)
        edit   == editingVacancy # NoVacancy
    IN  /\ isDrawerOpen
        /\ validationErrors' = errors
        /\ lastOp' = "handleSave"
        /\ lastInput' = NoInput
        /\ alert' = IF IsValid(errors) THEN "none" ELSE "validation"
        /\ mutations' = IF IsValid(errors) /\ mutations = {} /\ fetches = {}
                        THEN {[id      |-> 1,
                               method  |-> IF edit THEN "PUT" ELSE "POST",
                               vid     |-> IF edit THEN editingVacancy[1].id ELSE 0,
                               payload |-> VacancyPayload(formData)]}
                        ELSE mutations
        /\ UNCHANGED <<isDrawerOpen, editingVacancy, formData, dateInput,
                       filterVars, rawVacancies, isLoading, fetches>>
\* handleSave up to its first await: the validation pass, then the request
HandleSave ==
    LET errors == ValidateForm(formData)
        id     == FreshId({m.id : m \in mutations}, MaxMutations)
        edit   == editingVacancy # NoVacancy
    IN  /\ isDrawerOpen
        /\ validationErrors' = errors
        /\ lastOp' = "handleSave"
        /\ lastInput' = NoInput
        /\ IF ~IsValid(errors)
           THEN /\ alert' = "validation"
                /\ UNCHANGED mutations
           ELSE /\ id # 0
                /\ alert' = "none"
                /\ mutations' = mutations \cup
                      {[id      |-> id,
                        method  |-> IF edit THEN "PUT" ELSE "POST",
                        vid     |-> IF edit THEN editingVacancy[1].id ELSE 0,
                        payload |-> VacancyPayload(formData)]}
        /\ UNCHANGED <<isDrawerOpen, editingVacancy, formData, dateInput,
                       filterVars, rawVacancies, isLoading, fetches>>

HandleDeleteNoConfirm(confirmed) ==
    LET id == FreshId({m.id : m \in mutations}, MaxMutations)
    IN  /\ isDrawerOpen
        /\ editingVacancy # NoVacancy
        /\ alert' = "none"
        /\ lastOp' = "handleDelete"
        /\ lastInput' = [kind |-> IF confirmed THEN "confirm_yes" ELSE "confirm_no", data |-> <<>>]
        /\ id # 0
        /\ mutations' = mutations \cup
              {[id |-> id, method |-> "DELETE",
                vid |-> editingVacancy[1].id, payload |-> NoPayload]}
        /\ UNCHANGED <<formVars, filterVars, rawVacancies, isLoading, fetches>>
\* handleDelete up to its await; confirmed is the answer to window.confirm
HandleDelete(confirmed) ==
    LET id == FreshId({m.id : m \in mutations}, MaxMutations)
    IN  /\ isDrawerOpen
        /\ editingVacancy # NoVacancy
        /\ alert' = "none"
        /\ lastOp' = "handleDelete"
        /\ lastInput' = [kind |-> IF confirmed THEN "confirm_yes" ELSE "confirm_no", data |-> <<>>]
        /\ IF confirmed
           THEN /\ id # 0
                /\ mutations' = mutations \cup
                      {[id |-> id, method |-> "DELETE",
                        vid |-> editingVacancy[1].id, payload |-> NoPayload]}
           ELSE UNCHANGED mutations
        /\ UNCHANGED <<formVars, filterVars, rawVacancies, isLoading, fetches>>

MutationResponseRefetchAlways(m, outcome) ==
    LET id == FreshId({f.id : f \in fetches}, MaxFetches)
    IN  /\ m \in mutations
        /\ mutations' = mutations \ {m}
        /\ lastOp' = "mutationResponse"
        /\ lastInput' = [kind |-> outcome, data |-> <<>>]
        /\ id # 0
        /\ isLoading' = TRUE
        /\ fetches' = fetches \cup {[id |-> id, then |-> "close"]}
        /\ alert' = IF outcome = "ok" THEN "none"
                    ELSE IF m.method = "DELETE" THEN "delete_failed" ELSE "save_failed"
        /\ UNCHANGED <<rawVacancies, formVars, filterVars>>
MutationResponseCloseAtOnce(m, outcome) ==
    LET id == FreshId({f.id : f \in fetches}, MaxFetches)
    IN  /\ m \in mutations
        /\ mutations' = mutations \ {m}
        /\ lastOp' = "mutationResponse"
        /\ lastInput' = [kind |-> outcome, data |-> <<>>]
        /\ IF outcome = "ok"
           THEN /\ id # 0
                /\ isLoading' = TRUE
                /\ fetches' = fetches \cup {[id |-> id, then |-> "none"]}
                /\ alert' = "none"
                /\ CloseDrawerUpdate
           ELSE /\ alert' = IF m.method = "DELETE" THEN "delete_failed" ELSE "save_failed"
                /\ UNCHANGED <<isLoading, fetches, formVars>>
        /\ UNCHANGED <<rawVacancies, filterVars>>
\* the response to a POST, PUT or DELETE: on response.ok the handler calls
\* fetchVacancies (setIsLoading(true), a new GET) and awaits it; otherwise,
\* and on a network failure, the catch block raises the alert
MutationResponse(m, outcome) ==
    LET id == FreshId({f.id : f \in fetches}, MaxFetches)
    IN  /\ m \in mutations
        /\ mutations' = mutations \ {m}
        /\ lastOp' = "mutationResponse"
        /\ lastInput' = [kind |-> outcome, data |-> <<>>]
        /\ IF outcome = "ok"
           THEN /\ id # 0
                /\ isLoading' = TRUE
                /\ fetches' = fetches \cup {[id |-> id, then |-> "close"]}
                /\ alert' = "none"
           ELSE /\ alert' = IF m.method = "DELETE" THEN "delete_failed" ELSE "save_failed"
                /\ UNCHANGED <<isLoading, fetches>>
        /\ UNCHANGED <<rawVacancies, formVars, filterVars>>

MutationOutcomes == {"ok", "http_error", "network_error"}

(***************************************************************************)
(* Fetch (fetchVacancies, lines 75-107)                                    *)
(***************************************************************************)
FetchResponseNoFinally(f, o) ==
    /\ f \in fetches
    /\ fetches' = fetches \ {f}
    /\ rawVacancies' = IF o.kind = "ok" THEN o.data ELSE <<>>
    /\ alert' = IF o.kind \in {"http_error", "network_error"} THEN "fetch_failed" ELSE "none"
    /\ isLoading' = IF o.kind \in {"http_error", "network_error"} THEN isLoading ELSE FALSE
    /\ lastOp' = "fetchResponse"
    /\ lastInput' = o
    /\ IF f.then = "close" THEN CloseDrawerUpdate ELSE UNCHANGED formVars
    /\ UNCHANGED <<filterVars, mutations>>
FetchResponseNewestWins(f, o) ==
    /\ f \in fetches
    /\ fetches' = fetches \ {f}
    /\ rawVacancies' = IF f.then = "none" /\ fetches # {f} THEN rawVacancies
                       ELSE IF o.kind = "ok" THEN o.data ELSE <<>>
    /\ alert' = IF o.kind \in {"http_error", "network_error"} THEN "fetch_failed" ELSE "none"
    /\ isLoading' = FALSE
    /\ lastOp' = "fetchResponse"
    /\ lastInput' = o
    /\ IF f.then = "close" THEN CloseDrawerUpdate ELSE UNCHANGED formVars
    /\ UNCHANGED <<filterVars, mutations>>
FetchResponseKeepOnError(f, o) ==
    /\ f \in fetches
    /\ fetches' = fetches \ {f}
    /\ rawVacancies' = IF o.kind = "ok" THEN o.data ELSE rawVacancies
    /\ alert' = IF o.kind \in {"http_error", "network_error"} THEN "fetch_failed" ELSE "none"
    /\ isLoading' = FALSE
    /\ lastOp' = "fetchResponse"
    /\ lastInput' = o
    /\ IF f.then = "close" THEN CloseDrawerUpdate ELSE UNCHANGED formVars
    /\ UNCHANGED <<filterVars, mutations>>
\* the GET resolves or fails; f.then = "close" when handleSave or
\* handleDelete awaits this fetch and calls closeDrawer after it
FetchResponse(f, o) ==
    /\ f \in fetches
    /\ fetches' = fetches \ {f}
    /\ rawVacancies' = IF o.kind = "ok" THEN o.data ELSE <<>>
    /\ alert' = IF o.kind \in {"http_error", "network_error"} THEN "fetch_failed" ELSE "none"
    /\ isLoading' = FALSE
    /\ lastOp' = "fetchResponse"
    /\ lastInput' = o
    /\ IF f.then = "close" THEN CloseDrawerUpdate ELSE UNCHANGED formVars
    /\ UNCHANGED <<filterVars, mutations>>

(***************************************************************************)
(* Initial state: after the first render, with the mount effects run       *)
(***************************************************************************)
Today == IsoDate(2025, 1, 2)

Init ==
    /\ rawVacancies = <<>>
    /\ isLoading = TRUE
    /\ isDrawerOpen = FALSE
    /\ editingVacancy = NoVacancy
    /\ minPrice = 0
    /\ maxPrice = 1000
    /\ actualMinPrice = 0
    /\ actualMaxPrice = 1000
    /\ formData = initialFormData
    /\ dateInput = Today
    /\ validationErrors = NoErrors
    /\ timers = {[id |-> 1, min |-> 0, max |-> 1000]}
    /\ timeoutId = 1
    /\ fetches = {[id |-> 1, then |-> "none"]}
    /\ mutations = {}
    /\ alert = "none"
    /\ lastOp = "mount"
    /\ lastInput = NoInput

(***************************************************************************)
(* The filter layer: sliders, debounce timer and the initial fetch         *)
(***************************************************************************)
NextFilter ==
    \/ \E text \in SliderTexts : ChangeMin(text)
    \/ \E text \in SliderTexts : ChangeMax(text)
    \/ \E t \in timers : TimerFire(t)
    \/ \E f \in fetches, o \in FetchOutcomes(FetchLists) : FetchResponse(f, o)

SpecFilter == Init /\ [][NextFilter]_vars

(***************************************************************************)
(* The debounce under the event loop: a pending timeout is run in the end  *)
(***************************************************************************)
\* the list the GET returns while the expiry of the timer is studied
DebounceLists == {<<V1, V3>>}

\* every timeout the effect can set: an id and the captured slider values
TimerRecords ==
    {t \in [id : 1..MaxTimers, min : PriceStops, max : PriceStops] : t.min <= t.max}

NextDebounce ==
    \/ \E text \in SliderTexts : ChangeMin(text)
    \/ \E text \in SliderTexts : ChangeMax(text)
    \/ \E t \in timers : TimerFire(t)
    \/ \E f \in fetches, o \in FetchOutcomes(DebounceLists) : FetchResponse(f, o)

\* the browser runs the callback of a timeout that stays pending; a timeout
\* that is cleared before its delay has passed is never run
SpecDebounceFair ==
    /\ Init
    /\ [][NextDebounce]_vars
    /\ \A t \in TimerRecords : WF_vars(TimerFire(t))

(***************************************************************************)
(* The draft: opening the panel and editing the shift rows                 *)
(***************************************************************************)
\* the lists the GET returns while the rows of the draft are studied
DraftLists == {<<V1, V3>>, <<V5, V6>>}

\* values of the date input: cleared, or a day picked in the date picker
DateInputs == {EmptyStr, IsoDate(2025, 1, 2), IsoDate(2025, 1, 15)}

\* field edits of a row: the price typed as "0", the end time set to 08:00
DraftEdits == {<<"price", NatStr(0)>>, <<"end_time", TimeStr(8, 0)>>}

NextDraft ==
    \/ \E f \in fetches, o \in FetchOutcomes(DraftLists) : FetchResponse(f, o)
    \/ OpenDrawerNew
    \/ \E v \in Range(filteredVacancies) : OpenDrawerEdit(v)
    \/ CloseDrawer
    \/ \E d \in DateInputs : SetDateInput(d)
    \/ AddShift
    \/ \E i \in 0..(Len(formData.shifts) - 1), e \in DraftEdits :
          HandleShiftChange(i, e[1], e[2])
    \/ \E i \in DOMAIN formData.shifts : RemoveShift(formData.shifts[i].date)

SpecDraft == Init /\ [][NextDraft]_vars

(***************************************************************************)
(* The rows of a draft with recorded errors: edit, remove and SAVE         *)
(***************************************************************************)
\* what is typed or picked in a row: the edits above and a cleared price
RowEdits == DraftEdits \cup {<<"price", EmptyStr>>}

NextRows ==
    \/ \E f \in fetches, o \in FetchOutcomes(DraftLists) : FetchResponse(f, o)
    \/ \E v \in Range(filteredVacancies) : OpenDrawerEdit(v)
    \/ \E i \in 0..(Len(formData.shifts) - 1), e \in RowEdits :
          HandleShiftChange(i, e[1], e[2])
    \/ \E i \in DOMAIN formData.shifts : RemoveShift(formData.shifts[i].date)
    \/ HandleSave

SpecRows == Init /\ [][NextRows]_vars

(***************************************************************************)
(* The validation pass: SAVE pressed on every draft the panel can hold     *)
(***************************************************************************)
\* texts of the price input: cleared, "0", "10"
PriceTexts == {EmptyStr, NatStr(0), NatStr(10)}

\* the rows of a draft on its i-th date, in every combination of the times
\* and prices the row's inputs can be set to
RowsOn(i) ==
    {[date       |-> IsoDate(2025, 1, 1 + i),
      start_time |-> st, end_time |-> et,
      type       |-> initialShiftDetails.type,
      price      |-> ParseInt(pt)] :
        st \in {TimeStr(9, 0), TimeStr(17, 0)},
        et \in {TimeStr(8, 0), TimeStr(17, 0)},
        pt \in PriceTexts}

RECURSIVE ShiftListsOfLen(_)
ShiftListsOfLen(n) ==
    IF n = 0 THEN {<<>>}
    ELSE {Append(l, r) : l \in ShiftListsOfLen(n - 1), r \in RowsOn(n)}

ValidateDrafts ==
    {[title |-> t, description |-> d, shifts |-> l] :
        t \in {"", "A"}, d \in {"", "B"},
        l \in UNION {ShiftListsOfLen(n) : n \in 0..MaxShifts}}

\* what a pass on the untouched new draft leaves behind
StaleErrors == [keys |-> {"title", "description", "shifts"}, shiftDetails |-> {}]

\* the panel is open on a draft the user has edited; the first fetch returned
\* V1 and the debounce timer of the mount has expired
InitValidate ==
    /\ rawVacancies = <<V1>>
    /\ isLoading = FALSE
    /\ isDrawerOpen = TRUE
    /\ editingVacancy \in {NoVacancy, <<V1>>}
    /\ minPrice = 0
    /\ maxPrice = 1000
    /\ actualMinPrice = 0
    /\ actualMaxPrice = 1000
    /\ formData \in ValidateDrafts
    /\ dateInput = EmptyStr
    /\ validationErrors \in {NoErrors, StaleErrors}
    /\ timers = {}
    /\ timeoutId = 1
    /\ fetches = {}
    /\ mutations = {}
    /\ alert = "none"
    /\ lastOp = "handleInputChange"
    /\ lastInput = NoInput

NextValidate ==
    \/ HandleSave
    \/ \E v \in {"", "A"} : HandleInputChange("title", v)
    \/ \E m \in mutations, o \in MutationOutcomes : MutationResponse(m, o)
    \/ \E f \in fetches, o \in FetchOutcomes({<<V1>>}) : FetchResponse(f, o)

SpecValidate == InitValidate /\ [][NextValidate]_vars

(***************************************************************************)
(* The panel and the requests: open, edit, save, delete and the responses  *)
(***************************************************************************)
\* the list the GET returns while saves and deletes are studied
PanelLists == {<<V1>>}

NextPanel ==
    \/ \E f \in fetches, o \in FetchOutcomes(PanelLists) : FetchResponse(f, o)
    \/ OpenDrawerNew
    \/ \E v \in Range(filteredVacancies) : OpenDrawerEdit(v)
    \/ CloseDrawer
    \/ HandleInputChange("title", "A")
    \/ HandleInputChange("description", "B")
    \/ AddShift
    \/ HandleSave
    \/ \E confirmed \in BOOLEAN : HandleDelete(confirmed)
    \/ \E m \in mutations, o \in MutationOutcomes : MutationResponse(m, o)

SpecPanel == Init /\ [][NextPanel]_vars

(***************************************************************************)
(* The whole component: every event the user, the timer and the network    *)
(* can raise                                                               *)
(***************************************************************************)
Next ==
    \/ NextFilter
    \/ NextDraft
    \/ NextValidate
    \/ NextPanel
    \/ NextDebounce
    \/ NextRows
    \/ \E v \in {"", "B"} : HandleInputChange("description", v)

Spec == Init /\ [][Next]_vars

(***************************************************************************)
(* Properties of the filter layer                                          *)
(***************************************************************************)
RECURSIVE IsSubSeqFrom(_, _, _, _)
IsSubSeqFrom(a, i, b, j) ==
    IF i > Len(a) THEN TRUE
    ELSE IF j > Len(b) THEN FALSE
    ELSE IF a[i] = b[j] THEN IsSubSeqFrom(a, i + 1, b, j + 1)
    ELSE IsSubSeqFrom(a, i, b, j + 1)

\* a is b with some elements left out, the others in their order
IsSubSeq(a, b) == IsSubSeqFrom(a, 1, b, 1)

\* number of positions of list l whose element satisfies P
CountOf(l, P(_)) == Cardinality({i \in 1..Len(l) : P(l[i])})

NonEmptyShiftList(v) == v.hasSwifts /\ v.swifts # <<>>

SomePriceWithin(v, lo, hi) ==
    \E i \in DOMAIN v.swifts : lo <= v.swifts[i].price /\ v.swifts[i].price <= hi

DebouncedRange == <<actualMinPrice, actualMaxPrice>>
SliderRange == <<minPrice, maxPrice>>

\* C1: for every raw list and every debounced range with 0 <= min <= max <=
\* 1000 the filtered list is a sub-sequence of the raw list and holds no
\* vacancy whose shift list is missing or empty.
C1_FilteredIsSubsequenceWithShifts ==
    (0 <= actualMinPrice /\ actualMinPrice <= actualMaxPrice /\ actualMaxPrice <= 1000)
      => /\ IsSubSeq(filteredVacancies, rawVacancies)
         /\ \A i \in DOMAIN filteredVacancies : NonEmptyShiftList(filteredVacancies[i])

C1_Witness ==
    /\ rawVacancies = <<V4, V1, V2>>
    /\ DebouncedRange = <<0, 100>>
    /\ filteredVacancies = <<V1>>

\* C2: under the debounced range (0, 1000) the filtered list is the raw list
\* without exactly the vacancies that have no shifts, whatever the prices.
C2_DefaultRangeKeepsEveryVacancyWithShifts ==
    DebouncedRange = <<0, 1000>>
      => /\ IsSubSeq(filteredVacancies, rawVacancies)
         /\ Len(filteredVacancies) = CountOf(rawVacancies, NonEmptyShiftList)
         /\ \A i \in DOMAIN filteredVacancies : NonEmptyShiftList(filteredVacancies[i])

C2_Witness ==
    /\ rawVacancies = <<V1, V2, V5>>
    /\ DebouncedRange = <<0, 1000>>
    /\ filteredVacancies = <<V1, V5>>

\* C3: under a debounced range other than (0, 1000) a vacancy of the raw list
\* is in the filtered list iff one of its shifts has min <= price <= max.
C3_ActiveRangeKeepsVacanciesWithPriceWithin ==
    DebouncedRange # <<0, 1000>>
      => LET Within(v) == SomePriceWithin(v, actualMinPrice, actualMaxPrice)
         IN  /\ IsSubSeq(filteredVacancies, rawVacancies)
             /\ Len(filteredVacancies) = CountOf(rawVacancies, Within)
             /\ \A i \in DOMAIN filteredVacancies : Within(filteredVacancies[i])

C3_Witness ==
    /\ rawVacancies = <<V1, V2, V3>>
    /\ DebouncedRange = <<0, 100>>
    /\ filteredVacancies = <<V1>>

\* C4: at most one debounce timer is pending, it carries the current slider
\* values (a timer started before the latest slider change is gone), and
\* every change of a slider value leaves exactly one timer pending.
C4_OneTimerPending ==
    /\ [](/\ Cardinality(timers) <= 1
          /\ \A t \in timers : <<t.min, t.max>> = SliderRange)
    /\ [][SliderRange' # SliderRange
            => /\ Cardinality(timers') = 1
               /\ timers' \cap timers = {}]_vars

C4_Witness ==
    /\ SliderRange = <<100, 900>>
    /\ DebouncedRange = <<0, 1000>>
    /\ \E t \in timers : <<t.min, t.max>> = <<100, 900>>

TimerExpires == \E t \in timers : timers' = timers \ {t}

\* C5: the debounced bounds change only when the timer expires; on expiry
\* both are set in one step to the current slider values; a slider change by
\* itself leaves the debounced bounds and the filtered list unchanged; with
\* no timer pending the debounced bounds equal the slider values.
C5_DebouncedBoundsSetTogetherOnExpiry ==
    /\ [](timers = {} => DebouncedRange = SliderRange)
    /\ [][/\ DebouncedRange' # DebouncedRange => TimerExpires
          /\ TimerExpires => /\ SliderRange' = SliderRange
                             /\ DebouncedRange' = SliderRange
          /\ SliderRange' # SliderRange
               => /\ DebouncedRange' = DebouncedRange
                  /\ filteredVacancies' = filteredVacancies]_vars

C5_Witness ==
    /\ timers = {}
    /\ DebouncedRange = <<100, 900>>
    /\ rawVacancies = <<V1, V3>>
    /\ filteredVacancies = <<V3>>

(***************************************************************************)
(* Properties of the validation pass and of save                           *)
(***************************************************************************)
\* minutes since midnight of a time "HH:MM", read off its characters
MinutesOf(t) ==
    ((t[1] - Zero) * 10 + (t[2] - Zero)) * 60 + (t[4] - Zero) * 10 + (t[5] - Zero)

EndsAfterStart(row) == MinutesOf(row.end_time) > MinutesOf(row.start_time)
PositivePrice(row) == row.price # NaN /\ row.price > 0

\* a pass has just run on the draft of the current state
PassDone == lastOp = "handleSave"
PassFailed == PassDone /\ alert = "validation"

\* C6: a validation pass on a draft with an empty title fails and records a
\* title error, whatever the other fields are.
C6_EmptyTitleAlwaysFails ==
    (PassDone /\ formData.title = "")
      => /\ "title" \in validationErrors.keys
         /\ alert = "validation"

C6_Witness ==
    /\ PassFailed
    /\ formData.title = ""
    /\ formData.description = "B"
    /\ Len(formData.shifts) = 2
    /\ validationErrors = [keys |-> {"title"}, shiftDetails |-> {}]

\* C7: after a pass the time error of index i is recorded iff row i ends at or
\* before its start, the price error of index i iff its price is not a number
\* greater than 0, independently; any such error fails the pass.
C7_RowErrorsKeyedByIndex ==
    PassDone
      => /\ \A i \in DOMAIN formData.shifts :
              /\ <<"time", i - 1>> \in validationErrors.shiftDetails
                   <=> ~EndsAfterStart(formData.shifts[i])
              /\ <<"price", i - 1>> \in validationErrors.shiftDetails
                   <=> ~PositivePrice(formData.shifts[i])
         /\ \A e \in validationErrors.shiftDetails :
              e[1] \in {"time", "price"} /\ e[2] + 1 \in DOMAIN formData.shifts
         /\ validationErrors.shiftDetails # {}
              => "shiftDetails" \in validationErrors.keys /\ alert = "validation"

C7_Witness ==
    /\ PassFailed
    /\ formData = [title |-> "A", description |-> "B",
                   shifts |-> <<[date |-> IsoDate(2025, 1, 2),
                                 start_time |-> TimeStr(9, 0),
                                 end_time |-> TimeStr(8, 0),
                                 type |-> "Consultation", price |-> 10]>>]
    /\ validationErrors = [keys |-> {"shiftDetails"}, shiftDetails |-> {<<"time", 0>>}]

DraftPasses(fd) ==
    /\ fd.title # ""
    /\ fd.description # ""
    /\ Len(fd.shifts) >= 1
    /\ \A i \in DOMAIN fd.shifts : PositivePrice(fd.shifts[i]) /\ EndsAfterStart(fd.shifts[i])

\* C8: a save on a draft that fails validation sends nothing, keeps the panel
\* open and the draft as it is; every POST or PUT in flight carries a title, a
\* description, at least one shift, and only shifts with a price above 0 that
\* end after they start.
C8_OnlyValidDraftsAreSent ==
    /\ [](\A m \in mutations : m.method \in {"POST", "PUT"} => DraftPasses(m.payload))
    /\ [][(lastOp' = "handleSave" /\ ~DraftPasses(formData))
            => /\ mutations' = mutations
               /\ fetches' = fetches
               /\ isDrawerOpen' /\ isDrawerOpen
               /\ formData' = formData]_vars

C8_Witness ==
    /\ PassFailed
    /\ ~DraftPasses(formData)
    /\ isDrawerOpen
    /\ \E m \in mutations : m.method = "PUT" /\ Len(m.payload.shifts) = 2
    /\ Cardinality(mutations) = 1

(***************************************************************************)
(* Properties of the rows of the draft                                     *)
(***************************************************************************)
RowDates(fd) == {fd.shifts[i].date : i \in DOMAIN fd.shifts}

\* C9: add-shift with a date some row of the draft already has, or with an
\* empty date, changes neither the rows nor the date input.
C9_AddShiftDuplicateOrEmptyIsNoOp ==
    [][(lastOp' = "addShift" /\ (dateInput = EmptyStr \/ dateInput \in RowDates(formData)))
         => formData' = formData /\ dateInput' = dateInput]_vars

C9_Witness ==
    /\ lastOp = "addShift"
    /\ lastInput = NoInput
    /\ dateInput # EmptyStr
    /\ dateInput \in RowDates(formData)
    /\ isDrawerOpen

\* the calendar day a date string names, in either form, as YYYYMMDD
DayOf(s) ==
    LET n(i) == s[i] - Zero
    IN  IF s[5] = Hyphen
        THEN (n(1) * 1000 + n(2) * 100 + n(3) * 10 + n(4)) * 10000
               + (n(6) * 10 + n(7)) * 100 + n(9) * 10 + n(10)
        ELSE (n(7) * 1000 + n(8) * 100 + n(9) * 10 + n(10)) * 10000
               + (n(4) * 10 + n(5)) * 100 + n(1) * 10 + n(2)

\* C10: while the panel is open the rows of the draft have pairwise distinct
\* dates and are in ascending date order.
C10_RowsDistinctAndAscending ==
    isDrawerOpen
      => \A i, j \in DOMAIN formData.shifts :
            i < j => DayOf(formData.shifts[i].date) < DayOf(formData.shifts[j].date)

(***************************************************************************)
(* Properties of the requests                                              *)
(***************************************************************************)
\* s reads DD-MM-YYYY: two digits, two digits, four digits between hyphens
IsWireForm(s) ==
    /\ Len(s) = 10
    /\ s[3] = Hyphen /\ s[6] = Hyphen
    /\ \A i \in {1, 2, 4, 5, 7, 8, 9, 10} : IsDigit(s[i])

\* s reads YYYY-MM-DD
IsUiForm(s) ==
    /\ Len(s) = 10
    /\ s[5] = Hyphen /\ s[8] = Hyphen
    /\ \A i \in {1, 2, 3, 4, 6, 7, 9, 10} : IsDigit(s[i])

SaveRequests == {m \in mutations : m.method \in {"POST", "PUT"}}

\* C11: every POST and PUT carries the date of each of its shifts in the wire
\* form DD-MM-YYYY, for rows added in the panel and for rows copied from the
\* vacancy the panel was opened on.
C11_SavedDatesInWireForm ==
    \A m \in SaveRequests :
        \A i \in DOMAIN m.payload.shifts : IsWireForm(m.payload.shifts[i].date)

MutationFailed == lastOp = "mutationResponse" /\ lastInput.kind \in {"http_error", "network_error"}
MutationSucceeded == lastOp = "mutationResponse" /\ lastInput.kind = "ok"

\* C12: when a create, update or delete request gets a non-2xx response or
\* fails at the network level, an alert is raised and the step changes
\* neither the raw list, the draft, the vacancy being edited, the validation
\* errors nor the open state of the panel, and issues no re-fetch.
C12_FailedMutationChangesNothing ==
    [][MutationFailed'
         => /\ alert' \in {"save_failed", "delete_failed"}
            /\ rawVacancies' = rawVacancies
            /\ formData' = formData
            /\ editingVacancy' = editingVacancy
            /\ validationErrors' = validationErrors
            /\ isDrawerOpen' = isDrawerOpen
            /\ dateInput' = dateInput
            /\ fetches' = fetches
            /\ isLoading' = isLoading]_vars

C12_Witness ==
    /\ MutationFailed
    /\ alert = "save_failed"
    /\ isDrawerOpen
    /\ editingVacancy = <<V1>>
    /\ rawVacancies = <<V1>>
    /\ fetches = {}
    /\ mutations = {}

\* C13: after a create, update or delete request succeeds a re-fetch is
\* issued and the panel is closed only when that re-fetch completes; the raw
\* list changes only in the step that completes a fetch.
C13_RefetchThenClose ==
    /\ [][MutationSucceeded'
            => /\ \E f \in fetches' \ fetches : f.then = "close" /\ fetches' = fetches \cup {f}
               /\ isLoading'
               /\ isDrawerOpen' = isDrawerOpen
               /\ rawVacancies' = rawVacancies]_vars
    /\ [][rawVacancies' # rawVacancies
            => lastOp' = "fetchResponse" /\ fetches' # fetches /\ fetches' \subseteq fetches]_vars
    /\ [][(isDrawerOpen /\ ~isDrawerOpen')
            => \/ lastOp' = "closeDrawer"
               \/ /\ lastOp' = "fetchResponse"
                  /\ \E f \in fetches \ fetches' : f.then = "close"]_vars
    /\ [][(lastOp' = "fetchResponse" /\ \E f \in fetches \ fetches' : f.then = "close")
            => ~isDrawerOpen']_vars

C13_Witness ==
    /\ MutationSucceeded
    /\ isDrawerOpen
    /\ isLoading
    /\ rawVacancies = <<V1>>
    /\ fetches = {[id |-> 1, then |-> "close"]}

\* C14: a completed fetch replaces the raw list by its outcome: the array of
\* a well-formed 2xx response; empty without an alert for a malformed 2xx
\* body; empty with an alert for a non-2xx response or a network failure; it
\* starts no new GET.
C14_FetchReplacesListWholesale ==
    [][lastOp' = "fetchResponse"
         => /\ lastInput'.kind = "ok"
                 => rawVacancies' = lastInput'.data /\ alert' = "none"
            /\ lastInput'.kind = "malformed"
                 => rawVacancies' = <<>> /\ alert' = "none"
            /\ lastInput'.kind \in {"http_error", "network_error"}
                 => rawVacancies' = <<>> /\ alert' = "fetch_failed"
            /\ fetches' \subseteq fetches
            /\ mutations' = mutations]_vars

C14_Witness ==
    /\ lastOp = "fetchResponse"
    /\ lastInput.kind = "malformed"
    /\ rawVacancies = <<>>
    /\ alert = "none"
    /\ ~isDrawerOpen
    /\ Len(formData.shifts) = 2

NewRequests == mutations' \ mutations

\* C15: a save from a panel opened on vacancy V sends PUT to V's id and a save
\* from a panel opened without a source sends POST to the base endpoint; a
\* DELETE goes to V's id, only from a panel editing V and only when the prompt
\* was accepted; declining the prompt sends nothing and changes no state.
C15_MethodAndTargetFollowThePanel ==
    /\ [][\A m \in NewRequests :
            /\ Cardinality(NewRequests) = 1
            /\ m.method \in {"POST", "PUT"}
                 => /\ lastOp' = "handleSave"
                    /\ editingVacancy = NoVacancy => m.method = "POST" /\ m.vid = 0
                    /\ editingVacancy # NoVacancy
                         => m.method = "PUT" /\ m.vid = editingVacancy[1].id
            /\ m.method = "DELETE"
                 => /\ lastOp' = "handleDelete"
                    /\ lastInput'.kind = "confirm_yes"
                    /\ isDrawerOpen
                    /\ editingVacancy # NoVacancy
                    /\ m.vid = editingVacancy[1].id]_vars
    /\ [][(lastOp' = "handleDelete" /\ lastInput'.kind = "confirm_no")
            => /\ mutations' = mutations
               /\ UNCHANGED <<rawVacancies, isLoading, isDrawerOpen, editingVacancy,
                              formData, dateInput, validationErrors, fetches,
                              minPrice, maxPrice, actualMinPrice, actualMaxPrice,
                              timers>>]_vars

C15_Witness ==
    /\ lastOp = "handleDelete"
    /\ lastInput.kind = "confirm_no"
    /\ editingVacancy = <<V1>>
    /\ \E m \in mutations : m.method = "PUT" /\ m.vid = 1
    /\ Cardinality(mutations) = 1

(***************************************************************************)
(* Properties of closing and opening the panel                             *)
(***************************************************************************)
OpenedWithoutSource == lastOp = "openDrawer" /\ editingVacancy = NoVacancy

\* C16: closing the panel discards the draft and the validation errors: with
\* the panel closed the draft holds no title, description or shift rows, the
\* error set is empty and no vacancy is being edited; an open without a
\* source shows an empty title, an empty description and no rows.
C16_CloseDiscardsDraftAndErrors ==
    /\ ~isDrawerOpen
         => /\ formData = initialFormData
            /\ validationErrors = NoErrors
            /\ editingVacancy = NoVacancy
    /\ OpenedWithoutSource => formData = initialFormData

\* C16 as amended: closing the panel empties the error set and the vacancy
\* being edited and leaves the title, the description and the rows of the
\* draft as they were; an open without a source replaces them by an empty
\* title, an empty description and no rows, with no errors.
C16_CloseKeepsDraftUntilNextOpen ==
    /\ [](~isDrawerOpen => validationErrors = NoErrors /\ editingVacancy = NoVacancy)
    /\ [][(isDrawerOpen /\ ~isDrawerOpen') => formData' = formData]_vars
    /\ [](OpenedWithoutSource
            => isDrawerOpen /\ formData = initialFormData /\ validationErrors = NoErrors)

C16_Witness ==
    /\ lastOp = "closeDrawer"
    /\ ~isDrawerOpen
    /\ formData.title = "A"
    /\ Len(formData.shifts) = 1
    /\ validationErrors = NoErrors

(***************************************************************************)
(* Properties of adding a row and of opening the panel on a vacancy        *)
(***************************************************************************)
RemoveAt(rows, k) == SubSeq(rows, 1, k - 1) \o SubSeq(rows, k + 1, Len(rows))

AscendingByDay(rows) ==
    \A i, j \in DOMAIN rows : i < j => DayOf(rows[i].date) <= DayOf(rows[j].date)

DefaultRow(date) ==
    [date |-> date, start_time |-> TimeStr(9, 0), end_time |-> TimeStr(17, 0),
     type |-> "Consultation", price |-> 70]

\* C17: add-shift with a non-empty date no row of the draft has adds exactly
\* one row, with that date, 09:00 to 17:00, type Consultation and price 70;
\* the earlier rows are kept as they were, the rows are then in ascending
\* order of their dates, and the date input is cleared.
C17_AddShiftInsertsDefaultRowInDateOrder ==
    [][(lastOp' = "addShift" /\ dateInput # EmptyStr /\ dateInput \notin RowDates(formData))
         => /\ Len(formData'.shifts) = Len(formData.shifts) + 1
            /\ \E k \in DOMAIN formData'.shifts :
                  /\ formData'.shifts[k] = DefaultRow(dateInput)
                  /\ RemoveAt(formData'.shifts, k) = formData.shifts
            /\ AscendingByDay(formData'.shifts)
            /\ dateInput' = EmptyStr]_vars

SwiftsOf(v) == IF v.hasSwifts THEN v.swifts ELSE <<>>

TextOf(x) == IF x = JsNull THEN "" ELSE x

\* row is shift sw with the times cut to HH:MM and the date in the UI form
RowMirrors(row, sw) ==
    /\ row.type = sw.type
    /\ row.price = sw.price
    /\ Len(row.start_time) = 5 /\ row.start_time = SubSeq(sw.start_time, 1, 5)
    /\ Len(row.end_time) = 5 /\ row.end_time = SubSeq(sw.end_time, 1, 5)
    /\ IsUiForm(row.date)
    /\ DayOf(row.date) = DayOf(sw.date)

\* C18: after the panel is opened on a vacancy V the draft has V's title and
\* description ("" when absent) and one row per shift of V, each with the
\* type and price of its shift, the times as HH:MM and the date as
\* YYYY-MM-DD, in ascending order of date; the error set is empty and V is
\* in the raw list as it was.
C18_OpenCopiesAndReformatsSource ==
    (lastOp = "openDrawer" /\ editingVacancy # NoVacancy)
      => LET v    == editingVacancy[1]
             rows == formData.shifts
         IN  /\ formData.title = TextOf(v.title)
             /\ formData.description = TextOf(v.description)
             /\ Len(rows) = Len(SwiftsOf(v))
             /\ \E p \in [DOMAIN rows -> DOMAIN rows] :
                   /\ \A i, j \in DOMAIN rows : p[i] = p[j] => i = j
                   /\ \A i \in DOMAIN rows : RowMirrors(rows[i], SwiftsOf(v)[p[i]])
             /\ AscendingByDay(rows)
             /\ validationErrors = NoErrors
             /\ v \in Range(rawVacancies)

(***************************************************************************)
(* Properties of the whole validation pass                                 *)
(***************************************************************************)
\* the rules the draft violates, by the key of their error
ViolatedRules(fd) ==
    {k \in {"title", "description", "shifts", "shiftDetails"} :
        \/ k = "title" /\ fd.title = ""
        \/ k = "description" /\ fd.description = ""
        \/ k = "shifts" /\ fd.shifts = <<>>
        \/ k = "shiftDetails"
             /\ \E i \in DOMAIN fd.shifts :
                   ~PositivePrice(fd.shifts[i]) \/ ~EndsAfterStart(fd.shifts[i])}

ViolatedRowRules(fd) ==
    {e \in {"price", "time"} \X (0..(Len(fd.shifts) - 1)) :
        \/ e[1] = "price" /\ ~PositivePrice(fd.shifts[e[2] + 1])
        \/ e[1] = "time" /\ ~EndsAfterStart(fd.shifts[e[2] + 1])}

\* C19: after a validation pass the error set holds an error for exactly the
\* rules the draft violates (empty title, empty description, no rows, price
\* and time of each row), all of them together and none left from an earlier
\* pass, and the pass fails iff the error set is not empty.
C19_PassReportsExactlyTheViolatedRules ==
    PassDone
      => /\ validationErrors.keys = ViolatedRules(formData)
         /\ validationErrors.shiftDetails = ViolatedRowRules(formData)
         /\ PassFailed <=> validationErrors.keys # {}

C19_Witness ==
    /\ PassFailed
    /\ formData.title = ""
    /\ formData.description = ""
    /\ Len(formData.shifts) = 2
    /\ validationErrors = [keys |-> {"title", "description", "shiftDetails"},
                           shiftDetails |-> {<<"price", 0>>, <<"time", 1>>}]

(***************************************************************************)
(* Liveness of the debounce                                                *)
(***************************************************************************)
\* C20: if the slider values stop changing, the pending timer expires in the
\* end and from some point on the debounced bounds equal the slider values
\* and the filtered list is the filter of the raw list under the slider
\* values; a step in which no timer expires, a slider change among them,
\* leaves the debounced bounds as they are.
C20_DebounceSettlesOnceSlidersRest ==
    /\ <>[][SliderRange' = SliderRange]_vars
         => <>[](/\ timers = {}
                 /\ DebouncedRange = SliderRange
                 /\ filteredVacancies = Filter(rawVacancies, minPrice, maxPrice))
    /\ [][~TimerExpires => DebouncedRange' = DebouncedRange]_vars

C20_Witness ==
    /\ lastOp = "timer"
    /\ timers = {}
    /\ SliderRange = <<0, 100>>
    /\ DebouncedRange = <<0, 100>>
    /\ rawVacancies = <<V1, V3>>
    /\ filteredVacancies = <<V1>>

(***************************************************************************)
(* Properties of the requests in flight                                    *)
(***************************************************************************)
\* C21: at most one fetch and at most one mutation request are in flight at
\* any time, whatever the user does.
C21_OneFetchAndOneMutationInFlight ==
    Cardinality(fetches) <= 1 /\ Cardinality(mutations) <= 1

\* C21 as amended: requests are not sequenced.  A SAVE on a draft that passes
\* validation and an accepted DELETE each put one more mutation in flight,
\* whether or not a fetch or another mutation is in flight; a successful
\* mutation response puts one more fetch in flight, whether or not another
\* is; a request leaves flight only in the step of its own response, one at
\* a time, so more than one of each kind can be in flight.
C21_RequestsAreNotSequenced ==
    /\ [][(lastOp' = "handleSave" /\ DraftPasses(formData))
            => Cardinality(mutations') = Cardinality(mutations) + 1
                 /\ mutations \subseteq mutations']_vars
    /\ [][(lastOp' = "handleDelete" /\ lastInput'.kind = "confirm_yes")
            => Cardinality(mutations') = Cardinality(mutations) + 1
                 /\ mutations \subseteq mutations']_vars
    /\ [][MutationSucceeded'
            => Cardinality(fetches') = Cardinality(fetches) + 1
                 /\ fetches \subseteq fetches']_vars
    /\ [][~(mutations \subseteq mutations')
            => /\ lastOp' = "mutationResponse"
               /\ Cardinality(mutations') = Cardinality(mutations) - 1]_vars
    /\ [][~(fetches \subseteq fetches')
            => /\ lastOp' = "fetchResponse"
               /\ Cardinality(fetches') = Cardinality(fetches) - 1]_vars

C21_Witness ==
    /\ lastOp = "handleSave"
    /\ Cardinality(mutations) = 2
    /\ Cardinality(fetches) = 2
    /\ isDrawerOpen

\* the raw list a fetch outcome leaves
ListOf(outcome) == IF outcome.kind = "ok" THEN outcome.data ELSE <<>>

\* the fetch the mount effect issued, the first one of all
IsMountFetch(f) == f.then = "none"

C23_LoadingExactlyWhileFetching ==
    isLoading <=> fetches # {}

\* C23 as amended: the loading flag is set when a fetch is issued and cleared
\* when any fetch completes, with every outcome, and changes in no other
\* step; so it is never true with no fetch in flight, and it is false while
\* a fetch is in flight once an overlapping fetch has completed.
C23_LoadingClearedByEveryCompletion ==
    /\ [](isLoading => fetches # {})
    /\ [][~(fetches' \subseteq fetches) => isLoading']_vars
    /\ [][lastOp' = "fetchResponse" => ~isLoading']_vars
    /\ [][isLoading' # isLoading => fetches' # fetches]_vars

C23_Witness ==
    /\ lastOp = "fetchResponse"
    /\ lastInput.kind = "network_error"
    /\ alert = "fetch_failed"
    /\ ~isLoading
    /\ fetches # {}
    /\ rawVacancies = <<>>

(***************************************************************************)
(* Properties of the price bounds                                          *)
(***************************************************************************)
WithinSliderScale(range) == 0 <= range[1] /\ range[1] <= range[2] /\ range[2] <= 1000

\* C24: in every reachable state 0 <= minPrice <= maxPrice <= 1000 and
\* 0 <= actualMinPrice <= actualMaxPrice <= 1000; a change of the min slider
\* leaves the max as it is and sets the min no higher than the max, a change
\* of the max slider leaves the min as it is and sets the max no lower than
\* the min.
C24_BoundsOrderedWithinScale ==
    /\ [](WithinSliderScale(SliderRange) /\ WithinSliderScale(DebouncedRange))
    /\ [][lastOp' = "changeMin" => maxPrice' = maxPrice /\ minPrice' <= maxPrice]_vars
    /\ [][lastOp' = "changeMax" => minPrice' = minPrice /\ maxPrice' >= minPrice]_vars

C24_Witness ==
    /\ lastOp = "changeMax"
    /\ SliderRange = <<900, 900>>
    /\ DebouncedRange = <<0, 100>>
    /\ \E t \in timers : <<t.min, t.max>> = <<900, 900>>

(***************************************************************************)
(* Frame of the row edits                                                  *)
(***************************************************************************)
RowFields == {"date", "start_time", "end_time", "type", "price"}

\* new is old but for field name of row i
RowsDifferOnlyAt(old, new, i, name) ==
    /\ Len(new) = Len(old)
    /\ \A j \in DOMAIN old : j # i => new[j] = old[j]
    /\ \A field \in RowFields \ {name} : new[i][field] = old[i][field]

\* what neither an edit of a row nor a removal touches
RowEditFrame ==
    /\ formData'.title = formData.title
    /\ formData'.description = formData.description
    /\ rawVacancies' = rawVacancies
    /\ validationErrors' = validationErrors
    /\ editingVacancy' = editingVacancy
    /\ isDrawerOpen' = isDrawerOpen

\* C25: an edit of a row changes one field of one row, a price being stored
\* as a number; a removal by date leaves the rows of every other date, in
\* their order, and none of that date; both leave the title, the
\* description, the raw list and the recorded validation errors as they are.
C25_RowEditsTouchOnlyTheirRows ==
    /\ [][lastOp' = "handleShiftChange"
            => /\ \E i \in DOMAIN formData.shifts, name \in RowFields \ {"date"} :
                     /\ RowsDifferOnlyAt(formData.shifts, formData'.shifts, i, name)
                     /\ formData'.shifts[i].price \in Int
               /\ RowEditFrame]_vars
    /\ [][lastOp' = "removeShift"
            => /\ \E d \in RowDates(formData) :
                     /\ d \notin RowDates(formData')
                     /\ IsSubSeq(formData'.shifts, formData.shifts)
                     /\ Len(formData'.shifts)
                          = CountOf(formData.shifts, LAMBDA r : r.date # d)
               /\ RowEditFrame]_vars

\* both rows of a vacancy with one date twice are removed at once and the
\* price error recorded for the first of them stays
C25_Witness ==
    /\ lastOp = "removeShift"
    /\ editingVacancy = <<V6>>
    /\ formData.shifts = <<>>
    /\ <<"price", 0>> \in validationErrors.shiftDetails

=============================================================================
